---- MODULE Spec2Model ----
(***************************************************************************)
(* Model of Profiler/profiler.py: class memory_profiler and its helpers.   *)
(*                                                                         *)
(* The profiler object (self) is the state; the model it instruments, the  *)
(* tensor runtime (storages and their addresses) and the output directory  *)
(* are its environment.  Every method is one action.                       *)
(***************************************************************************)
EXTENDS Integers, Sequences, FiniteSets, TLC

(***************************************************************************)
(* Bounds of the model.                                                    *)
(***************************************************************************)
NumStorages == 3   \* tensor storages the runtime hands to the hooks
MaxGrads    == 1   \* most tensors in_grads and out_grads of one backward call hold together
MaxIter     == 4   \* record_stats calls modelled per epoch
MaxEpoch    == 2   \* last epoch number modelled
AcctIter    == 2   \* record_stats calls per epoch where the accounting is explored
MaxMB       == 8   \* largest counter reading explored around the rounding points, in MB

Storages == 1..NumStorages

\* An absent value (None, or an attribute not yet assigned).
Null == <<>>

(***************************************************************************)
(* The model handed to the constructor.                                    *)
(* Modules: 0 is the model itself; ModuleTrees are the _modules maps the   *)
(* runs start from, children in registration order (entry m+1 holds the    *)
(* children of module m).                                                  *)
(***************************************************************************)
Modules == 0..3

ModuleTrees ==
    { << <<>>,      <<>>,     <<>>,  <<>> >>,     \* a model without children
      << <<1, 2>>,  <<>>,     <<>>,  <<>> >>,     \* two layers
      << <<1>>,     <<2, 3>>, <<>>,  <<>> >>,     \* nested layers
      << <<1, 2>>,  <<3>>,    <<3>>, <<>> >>,     \* one instance under two parents
      << <<1, 1>>,  <<2>>,    <<>>,  <<>> >> }    \* one instance under two names

Children(tree, m) == tree[m + 1]

(***************************************************************************)
(* Parameter objects of the model.  Parameter 3 is tied to parameter 1:    *)
(* two named parameters with one backing storage.                          *)
(***************************************************************************)
Params == {1, 2, 3}

ParamName(p) ==
    CASE p = 1 -> "A.weight" [] p = 2 -> "B.weight" [] OTHER -> "C.weight"

\* tensor.storage().data_ptr() of a parameter
ParamPtr(p) == IF p = 3 THEN 101 ELSE 100 + p

\* storage().size() * element_size() of a parameter
ParamBytes(p) == IF p = 2 THEN 200000 ELSE 400000

\* storage().size() * element_size() of a runtime storage
StorageBytes(s) ==
    CASE s = 1 -> 5000000 [] s = 2 -> 3000000 [] s = 3 -> 600000 [] OTHER -> 999999

\* storage().data_ptr() of a runtime storage: a storage keeps its address for
\* life and the allocator hands a released address out again: storages 1 and 2
\* are placed at address 1, storages 3 and 4 at address 2, and so on
StorageAddr(s) == (s + 1) \div 2

VARIABLES
    \* ---- the model and the runtime
    tree,        \* the model's _modules hierarchy
    fwd_reg,     \* register_forward_hook calls so far, in order (module ids)
    bwd_reg,     \* register_backward_hook calls so far, in order (module ids)
    named,       \* model.named_parameters(), in order (parameter objects)
    grad,        \* grad[p]: the storage of p.grad, 0 when p.grad is None
    live,        \* the storages allocated now
    dir_exists,  \* whether OUTPUT_DIR exists
    file,        \* the log file: Null, or <<header row>>
    \* ---- the profiler object
    st,          \* "new", "exited" (exit() was called), "ready", "raised"
    csv, print_period, iteration, epoch,
    activation_data_pointers, memory_used_by_feature_maps,
    gradient_data_pointers, memory_used_by_gradients,
    params,      \* self.params, in insertion order: records dp, tensor, size, name, grad_size
    unnamed_gradient_mem,   \* Null until print_info_table assigns it
    fname,       \* whether self.fname is assigned
    \* ---- what the last call did and emitted
    out,
    \* ---- history of the current accounting window
    act_first,   \* <<address, bytes>> of the first forward observation of each address
    act_seen,    \* the storages forward_hook was handed
    ncalls,      \* record_stats calls since construction or the last epoch_end
    nreports     \* reports emitted since construction or the last epoch_end

env  == <<tree, named, grad, live, dir_exists, file>>
regs == <<fwd_reg, bwd_reg>>
self == <<csv, print_period, iteration, epoch, activation_data_pointers,
          memory_used_by_feature_maps, gradient_data_pointers,
          memory_used_by_gradients, params, unnamed_gradient_mem, fname>>
hist == <<act_first, act_seen, ncalls, nreports>>
vars == <<env, regs, st, self, out, hist>>

(***************************************************************************)
(* Module-level helpers of profiler.py.                                    *)
(***************************************************************************)
\* getDataPtr of a tensor backed by storage s
getDataPtr(s) == StorageAddr(s)

\* getTensorSize(tensor, scale="B") of a tensor backed by storage s
getTensorSize(s) == StorageBytes(s)

\* int(B / 1000000.0): the conversion that truncates
MBTruncating(B) == B \div 1000000

\* round(float(B) / 1000000.0): Python 3 rounds a tie to the even neighbour
MB(B) ==
    LET q == B \div 1000000
        r == B % 1000000
    IN  IF r > 500000 THEN q + 1
        ELSE IF r < 500000 THEN q
        ELSE IF q % 2 = 0 THEN q ELSE q + 1

RECURSIVE SumSeq(_)
SumSeq(s) == IF s = <<>> THEN 0 ELSE Head(s) + SumSeq(Tail(s))


Range(s) == { s[i] : i \in DOMAIN s }

Count(s, x) == Cardinality({ i \in DOMAIN s : s[i] = x })

\* What the last call printed or wrote; op names the call when it is one that
\* prints (__init__, record_stats, epoch_end) and is empty after any other;
\* cuda holds the counters a report read.
NoOut(op) ==
    [op |-> op, arg |-> Null, error |-> FALSE, warning |-> FALSE,
     open_tried |-> FALSE, cuda |-> Null, table |-> Null, row |-> Null]

(***************************************************************************)
(* gather_named_parameters: self.params is rebuilt from the model's named  *)
(* parameters.  self.params is a dict keyed by data pointer: assigning an  *)
(* existing key replaces the entry where it stands.                        *)
(***************************************************************************)
DictPut(d, rec) ==
    IF \E i \in DOMAIN d : d[i].dp = rec.dp
    THEN [i \in DOMAIN d |-> IF d[i].dp = rec.dp THEN rec ELSE d[i]]
    ELSE Append(d, rec)

RECURSIVE GatherFrom(_, _)
GatherFrom(nm, d) ==
    IF nm = <<>> THEN d
    ELSE LET p == Head(nm)
         IN  GatherFrom(Tail(nm),
                 DictPut(d, [dp |-> ParamPtr(p), tensor |-> p,
                             size |-> ParamBytes(p), name |-> ParamName(p),
                             grad_size |-> 0]))

GatherNamed(nm) == GatherFrom(nm, <<>>)

(***************************************************************************)
(* recursive_hooks: a forward hook on every entry of layer._modules, each  *)
(* followed by the walk of that entry's own _modules.                      *)
(***************************************************************************)
RECURSIVE recursive_hooks(_, _, _)
RECURSIVE HookEach(_, _, _)
HookEach(t, kids, reg) ==
    IF kids = <<>> THEN reg
    ELSE HookEach(t, Tail(kids),
                  recursive_hooks(t, Head(kids), Append(reg, Head(kids))))

recursive_hooks(t, layer, reg) == HookEach(t, Children(t, layer), reg)

\* lines 47-49 without the call of recursive_hooks
RegisterForwardTopOnly(t, reg) == reg \o Children(t, 0)

\* __init__, lines 46-52: the hooks the constructor registers
RegisterForward(t, reg) == recursive_hooks(t, 0, reg)

RegisterBackward(reg) == Append(reg, 0)

(***************************************************************************)
(* __init__, lines 62-71: the header row.  A column is <<name, suffix>>.   *)
(***************************************************************************)
Col(n) == <<n, "">>

HeaderRow(d) ==
    << Col("epoch"), Col("iteration"), Col("peak_allocated"), Col("peak_cached"),
       Col("current_cached"), Col("total_activation_usage"), Col("total_weight_usage") >>
    \o [i \in DOMAIN d |-> Col(d[i].name)]
    \o << Col("total_gradient_usage") >>
    \o [i \in DOMAIN d |-> <<d[i].name, "_grad">>]
    \o << Col("intermediate_grads") >>

PrintPeriods == {-1, 0, 1, 2, 3}

(***************************************************************************)
(* memory_profiler(model, print_period, csv): __init__.                    *)
(* mkdir_fails: os.mkdir raises OSError; raced: the directory exists all   *)
(* the same afterwards (another process made it); open_fails: open(fname,  *)
(* "w") raises although the directory exists.                              *)
(***************************************************************************)
\* line 26 with the comparison one off
InvalidPeriodBelowZero(pp) == pp < 0

\* __init__, line 26: the period the constructor refuses
InvalidPeriod(pp) == pp < 1

memory_profiler(pp, c, mkdir_fails, raced, open_fails) ==
    /\ st = "new"
    /\ IF InvalidPeriod(pp)
       THEN /\ st' = "exited"
            /\ out' = [NoOut("__init__") EXCEPT !.error = TRUE, !.arg = <<pp>>]
            /\ UNCHANGED <<env, regs, self, hist>>
       ELSE LET d        == GatherNamed(named)
                tried    == c /\ ~dir_exists
                failed   == tried /\ mkdir_fails
                dir_now  == IF tried THEN (IF failed THEN raced ELSE TRUE)
                            ELSE dir_exists
                opened   == c /\ dir_now /\ ~open_fails
            IN  /\ csv' = c
                /\ activation_data_pointers' = {}
                /\ memory_used_by_feature_maps' = 0
                /\ gradient_data_pointers' = {}
                /\ memory_used_by_gradients' = 0
                /\ print_period' = pp
                /\ iteration' = 0
                /\ epoch' = 1
                /\ params' = d
                /\ fwd_reg' = RegisterForward(tree, fwd_reg)
                /\ bwd_reg' = RegisterBackward(bwd_reg)
                /\ dir_exists' = dir_now
                /\ fname' = c
                /\ file' = IF opened THEN <<HeaderRow(d)>> ELSE file
                /\ st' = IF c /\ ~opened THEN "raised" ELSE "ready"
                /\ out' = [NoOut("__init__") EXCEPT !.warning = failed,
                                                    !.open_tried = c,
                                                    !.arg = <<pp>>]
                /\ UNCHANGED <<tree, named, grad, live, unnamed_gradient_mem, hist>>


\* The hooks stay registered on the model when __init__ raised after line 52.
Built == st \in {"ready", "raised"}

(***************************************************************************)
(* forward_hook(m, i, o), o a tensor backed by storage o.                  *)
(***************************************************************************)
\* forward_hook without the test of line 119
ForwardEffectNoTest(ptrs, total, o) ==
    <<ptrs \cup {getDataPtr(o)}, total + getTensorSize(o)>>

\* lines 119-121 with one identity set kept for activations and gradients
ForwardEffectSharedSet(ptrs, total, o) ==
    IF getDataPtr(o) \notin ptrs \cup gradient_data_pointers
    THEN <<ptrs \cup {getDataPtr(o)}, total + getTensorSize(o)>>
    ELSE <<ptrs, total>>

\* lines 119-121 on <<activation_data_pointers, memory_used_by_feature_maps>>
ForwardEffect(ptrs, total, o) ==
    IF getDataPtr(o) \notin ptrs
    THEN <<ptrs \cup {getDataPtr(o)}, total + getTensorSize(o)>>
    ELSE <<ptrs, total>>

forward_hook(m, o) ==
    /\ Built
    /\ m \in Range(fwd_reg)
    /\ o \in live
    /\ LET r == ForwardEffect(activation_data_pointers, memory_used_by_feature_maps, o)
       IN  /\ activation_data_pointers' = r[1]
           /\ memory_used_by_feature_maps' = r[2]
    /\ act_first' = IF \E e \in act_first : e[1] = StorageAddr(o)
                    THEN act_first
                    ELSE act_first \cup {<<StorageAddr(o), StorageBytes(o)>>}
    /\ act_seen' = act_seen \cup {o}
    /\ out' = NoOut("")
    /\ UNCHANGED <<env, regs, st, csv, print_period, iteration, epoch,
                   gradient_data_pointers, memory_used_by_gradients, params,
                   unnamed_gradient_mem, fname, ncalls, nreports>>

(***************************************************************************)
(* backwards_hook(m, in_grads, out_grads).  The accumulator is the record  *)
(* [ptrs, total, params] of gradient_data_pointers,                        *)
(* memory_used_by_gradients and self.params.                               *)
(***************************************************************************)
\* lines 144-148 with line 148 outside the test of line 145
ParamGradStepUntested(acc, i) ==
    LET g == grad[acc.params[i].tensor]
        d == IF g # 0
             THEN [acc.params EXCEPT ![i].grad_size = @ + getTensorSize(g)]
             ELSE acc.params
    IN  IF g # 0 /\ getDataPtr(g) \notin acc.ptrs
        THEN [ptrs   |-> acc.ptrs \cup {getDataPtr(g)},
              total  |-> acc.total + getTensorSize(g),
              params |-> d]
        ELSE [acc EXCEPT !.params = d]

\* lines 144-148 for the i-th entry of self.params
ParamGradStep(acc, i) ==
    LET g == grad[acc.params[i].tensor]
    IN  IF g # 0 /\ getDataPtr(g) \notin acc.ptrs
        THEN [ptrs   |-> acc.ptrs \cup {getDataPtr(g)},
              total  |-> acc.total + getTensorSize(g),
              params |-> [acc.params EXCEPT ![i].grad_size = @ + getTensorSize(g)]]
        ELSE acc

\* lines 143-148 with the loop ending at the first entry whose .grad is None
RECURSIVE ParamGradsUntilNone(_, _)
ParamGradsUntilNone(acc, i) ==
    IF i > Len(acc.params) \/ grad[acc.params[i].tensor] = 0 THEN acc
    ELSE ParamGradsUntilNone(ParamGradStep(acc, i), i + 1)

\* lines 143-148
RECURSIVE ParamGrads(_, _)
ParamGrads(acc, i) ==
    IF i > Len(acc.params) THEN acc ELSE ParamGrads(ParamGradStep(acc, i), i + 1)

\* lines 152-154 without the test of line 152
ListGradStepNoTest(acc, t) ==
    [acc EXCEPT !.ptrs = @ \cup {getDataPtr(t)}, !.total = @ + getTensorSize(t)]

\* lines 152-154 and 157-159 for one tensor of in_grads or out_grads
ListGradStep(acc, t) ==
    IF getDataPtr(t) \notin acc.ptrs
    THEN [acc EXCEPT !.ptrs = @ \cup {getDataPtr(t)}, !.total = @ + getTensorSize(t)]
    ELSE acc

\* lines 151-154 and 156-159
RECURSIVE ListGrads(_, _)
ListGrads(acc, ts) ==
    IF ts = <<>> THEN acc ELSE ListGrads(ListGradStep(acc, Head(ts)), Tail(ts))

\* lines 151-159 before lines 143-148: the passed-in lists looked at first
BackwardEffectListsFirst(acc, in_grads, out_grads) ==
    ParamGrads(ListGrads(ListGrads(acc, in_grads), out_grads), 1)

\* lines 143-159: the tracked parameters, then in_grads, then out_grads
BackwardEffect(acc, in_grads, out_grads) ==
    ListGrads(ListGrads(ParamGrads(acc, 1), in_grads), out_grads)

GradAcc ==
    [ptrs |-> gradient_data_pointers, total |-> memory_used_by_gradients,
     params |-> params]

\* the tuples of live tensors a backward call can carry
GradLists == UNION { [1..n -> live] : n \in 0..MaxGrads }

backwards_hook(m, in_grads, out_grads) ==
    /\ Built
    /\ m \in Range(bwd_reg)
    /\ in_grads \in GradLists
    /\ out_grads \in GradLists
    /\ Len(in_grads) + Len(out_grads) <= MaxGrads
    /\ LET r == BackwardEffect(GradAcc, in_grads, out_grads)
       IN  /\ gradient_data_pointers' = r.ptrs
           /\ memory_used_by_gradients' = r.total
           /\ params' = r.params
    /\ out' = NoOut("")
    /\ UNCHANGED <<env, regs, st, csv, print_period, iteration, epoch,
                   activation_data_pointers, memory_used_by_feature_maps,
                   unnamed_gradient_mem, fname, hist>>


(***************************************************************************)
(* total_layer_mem_MB, print_info_table, write_info_csv, record_stats.     *)
(***************************************************************************)
\* lines 97-99 summing over the model's named parameters, not over self.params
TotalNamedBytes(d) == SumSeq([i \in DOMAIN named |-> ParamBytes(named[i])])

\* lines 97-99: r, the bytes total_layer_mem_MB converts
RECURSIVE TotalLayerBytes(_)
TotalLayerBytes(d) ==
    IF d = <<>> THEN 0 ELSE Head(d).size + TotalLayerBytes(Tail(d))

total_layer_mem_MB(d) == MB(TotalLayerBytes(d))

\* lines 218-222: unnamed_gradient_mem after the loop over self.params
RECURSIVE UnnamedAfter(_, _)
UnnamedAfter(u, d) ==
    IF d = <<>> THEN u ELSE UnnamedAfter(u - Head(d).grad_size, Tail(d))

UnnamedGradientMem(total, d) == UnnamedAfter(total, d)

\* the allocator's counters as one call reads them
CudaReadings ==
    { [peak_allocated |-> 0, peak_cached |-> 0, current_cached |-> 0],
      [peak_allocated |-> 1500000, peak_cached |-> 2000000, current_cached |-> 2000000] }

\* byte counts at and next to every half and whole megabyte up to MaxMB
ByteSamples ==
    { k * 500000 + d : k \in 0..(2 * MaxMB), d \in {-1, 0, 1} } \ {-1}

\* the allocator's counters all standing at one of those byte counts
ByteReadings ==
    { [peak_allocated |-> b, peak_cached |-> b, current_cached |-> b] :
        b \in ByteSamples }

\* what print_info_table prints; weight_bytes is the sum behind "Total weight usage"
print_info_table(it, ep, cuda) ==
    [iteration        |-> it,
     epoch            |-> ep,
     peak_allocated   |-> MB(cuda.peak_allocated),
     peak_cached      |-> MB(cuda.peak_cached),
     current_cached   |-> MB(cuda.current_cached),
     activation       |-> MB(memory_used_by_feature_maps),
     weight_bytes     |-> TotalLayerBytes(params),
     total_weight     |-> total_layer_mem_MB(params),
     weights          |-> [i \in DOMAIN params |-> <<params[i].name, MB(params[i].size)>>],
     total_gradient   |-> MB(memory_used_by_gradients),
     grads            |-> [i \in DOMAIN params |-> <<params[i].name, MB(params[i].grad_size)>>],
     intermediate     |-> MB(UnnamedGradientMem(memory_used_by_gradients, params))]

\* the row write_info_csv appends, given the unnamed_gradient_mem it reads
write_info_csv(it, ep, cuda, unnamed) ==
    << ep, it, MB(cuda.peak_allocated), MB(cuda.peak_cached), MB(cuda.current_cached),
       MB(memory_used_by_feature_maps), total_layer_mem_MB(params) >>
    \o [i \in DOMAIN params |-> MB(params[i].size)]
    \o << MB(memory_used_by_gradients) >>
    \o [i \in DOMAIN params |-> MB(params[i].grad_size)]
    \o << MB(unnamed) >>

\* line 179 running before line 178: write_info_csv finds the value the
\* previous report left in self.unnamed_gradient_mem
UnnamedReadBeforeTable(before, after) == IF before = Null THEN 0 ELSE before[1]

\* lines 178-179: write_info_csv runs after print_info_table and finds the
\* value that call assigned to self.unnamed_gradient_mem
UnnamedRead(before, after) == after[1]

\* line 176 with the iteration as it was before line 174
ReportsBeforeIncrement(it, pp) == (it - 1) % pp = 0

\* line 176
Reports(it, pp) == it % pp = 0

\* record_stats doing at the end of the iteration what lines 252-259 do at the
\* end of the epoch
record_stats_clearing(cuda) ==
    /\ st = "ready"
    /\ iteration < MaxIter
    /\ cuda \in CudaReadings \cup ByteReadings
    /\ iteration' = iteration + 1
    /\ out' = NoOut("record_stats")
    /\ activation_data_pointers' = {}
    /\ memory_used_by_feature_maps' = 0
    /\ gradient_data_pointers' = {}
    /\ memory_used_by_gradients' = 0
    /\ params' = [i \in DOMAIN params |-> [params[i] EXCEPT !.grad_size = 0]]
    /\ ncalls' = ncalls + 1
    /\ UNCHANGED <<env, regs, st, csv, print_period, epoch, unnamed_gradient_mem,
                   fname, act_first, act_seen, nreports>>

record_stats(cuda) ==
    /\ st = "ready"
    /\ iteration < MaxIter
    /\ cuda \in CudaReadings \cup ByteReadings
    /\ LET it  == iteration + 1
           rep == Reports(it, print_period)
           u   == UnnamedGradientMem(memory_used_by_gradients, params)
       IN  /\ iteration' = it
           /\ unnamed_gradient_mem' = IF rep THEN <<u>> ELSE unnamed_gradient_mem
           /\ out' = [NoOut("record_stats") EXCEPT
                        !.cuda  = IF rep THEN <<cuda>> ELSE Null,
                        !.table = IF rep THEN <<print_info_table(it, epoch, cuda)>>
                                  ELSE Null,
                        !.row   = IF rep /\ csv
                                  THEN <<write_info_csv(it, epoch, cuda,
                                           UnnamedRead(unnamed_gradient_mem, <<u>>))>>
                                  ELSE Null]
           /\ ncalls' = ncalls + 1
           /\ nreports' = IF rep THEN nreports + 1 ELSE nreports
    /\ UNCHANGED <<env, regs, st, csv, print_period, epoch,
                   activation_data_pointers, memory_used_by_feature_maps,
                   gradient_data_pointers, memory_used_by_gradients, params,
                   fname, act_first, act_seen>>

(***************************************************************************)
(* epoch_end.                                                              *)
(***************************************************************************)
\* lines 257-259 also zeroing the weight size of each entry
ZeroAllSizes(d) == [i \in DOMAIN d |-> [d[i] EXCEPT !.grad_size = 0, !.size = 0]]

\* epoch_end without lines 258-259
KeepGradSizes(d) == d

\* lines 258-259
ZeroGradSizes(d) == [i \in DOMAIN d |-> [d[i] EXCEPT !.grad_size = 0]]

epoch_end ==
    /\ st = "ready"
    /\ epoch < MaxEpoch
    /\ activation_data_pointers' = {}
    /\ memory_used_by_feature_maps' = 0
    /\ gradient_data_pointers' = {}
    /\ memory_used_by_gradients' = 0
    /\ iteration' = 0
    /\ epoch' = epoch + 1
    /\ params' = ZeroGradSizes(params)
    /\ out' = NoOut("epoch_end")
    /\ act_first' = {}
    /\ act_seen' = {}
    /\ ncalls' = 0
    /\ nreports' = 0
    /\ UNCHANGED <<env, regs, st, csv, print_period, unnamed_gradient_mem, fname>>

(***************************************************************************)
(* gather_named_parameters, called on the constructed profiler.            *)
(***************************************************************************)
gather_named_parameters ==
    /\ st = "ready"
    /\ params' = GatherNamed(named)
    /\ out' = NoOut("")
    /\ UNCHANGED <<env, regs, st, csv, print_period, iteration, epoch,
                   activation_data_pointers, memory_used_by_feature_maps,
                   gradient_data_pointers, memory_used_by_gradients,
                   unnamed_gradient_mem, fname, hist>>

(***************************************************************************)
(* The environment: the allocator, autograd and the training script.       *)
(***************************************************************************)
\* the allocator creates storage s, its address being free
Alloc(s) ==
    /\ Built
    /\ s \notin live
    /\ \A t \in live : StorageAddr(t) # StorageAddr(s)
    /\ live' = live \cup {s}
    /\ out' = NoOut("")
    /\ UNCHANGED <<tree, named, grad, dir_exists, file, regs, st, self, hist>>

\* a storage no tensor refers to any more is released
Free(s) ==
    /\ Built
    /\ s \in live
    /\ \A p \in Params : grad[p] # s
    /\ live' = live \ {s}
    /\ out' = NoOut("")
    /\ UNCHANGED <<tree, named, grad, dir_exists, file, regs, st, self, hist>>

\* autograd populates p.grad with a tensor on storage s; s = 0 sets it to None
\* (p a parameter of the model or one the profiler still refers to)
SetGrad(p, s) ==
    /\ Built
    /\ p \in Range(named) \cup { params[i].tensor : i \in DOMAIN params }
    /\ s \in live \cup {0}
    /\ grad[p] # s
    /\ grad' = [grad EXCEPT ![p] = s]
    /\ out' = NoOut("")
    /\ UNCHANGED <<tree, named, live, dir_exists, file, regs, st, self, hist>>

\* the script registers parameter p on the model
AddParam(p) ==
    /\ Built
    /\ p \notin Range(named)
    /\ named' = Append(named, p)
    /\ out' = NoOut("")
    /\ UNCHANGED <<tree, grad, live, dir_exists, file, regs, st, self, hist>>

\* the script deletes parameter p from the model
RemoveParam(p) ==
    /\ Built
    /\ p \in Range(named)
    /\ named' = SelectSeq(named, LAMBDA q : q # p)
    /\ out' = NoOut("")
    /\ UNCHANGED <<tree, grad, live, dir_exists, file, regs, st, self, hist>>


(***************************************************************************)
(* Specifications.                                                         *)
(***************************************************************************)
\* the named parameters the model starts with
NamedInits == { <<>>, <<1, 2>>, <<1, 2, 3>> }

InitWith(trees, nameds, dirs, lives) ==
    /\ tree \in trees
    /\ named \in nameds
    /\ dir_exists \in dirs
    /\ grad = [p \in Params |-> 0]
    /\ live \in lives
    /\ file = Null
    /\ fwd_reg = <<>>
    /\ bwd_reg = <<>>
    /\ st = "new"
    /\ csv = FALSE
    /\ print_period = 0
    /\ iteration = 0
    /\ epoch = 0
    /\ activation_data_pointers = {}
    /\ memory_used_by_feature_maps = 0
    /\ gradient_data_pointers = {}
    /\ memory_used_by_gradients = 0
    /\ params = <<>>
    /\ unnamed_gradient_mem = Null
    /\ fname = FALSE
    /\ out = NoOut("")
    /\ act_first = {}
    /\ act_seen = {}
    /\ ncalls = 0
    /\ nreports = 0

\* the constructor called with a period of pps and a csv flag of cs
ConstructWith(pps, cs) ==
    \E pp \in pps, c \in cs, mkdir_fails, raced, open_fails \in BOOLEAN :
        memory_profiler(pp, c, mkdir_fails, raced, open_fails)

Forward == \E m \in Range(fwd_reg), o \in live : forward_hook(m, o)

Backward ==
    \E m \in Range(bwd_reg), in_grads \in GradLists :
        \E out_grads \in { g \in GradLists : Len(in_grads) + Len(g) <= MaxGrads } :
            backwards_hook(m, in_grads, out_grads)

Record == \E cuda \in CudaReadings : record_stats(cuda)

RecordBytes == \E cuda \in ByteReadings : record_stats(cuda)

Autograd == \E p \in Params, s \in Storages \cup {0} : SetGrad(p, s)

Allocator ==
    \/ \E s \in Storages : Alloc(s)
    \/ \E s \in Storages : Free(s)

Script ==
    \/ \E p \in Params : AddParam(p)
    \/ \E p \in Params : RemoveParam(p)

TwoLayers == << <<1, 2>>, <<>>, <<>>, <<>> >>

\* storages at pairwise different addresses
OddStorages == { s \in Storages : s % 2 = 1 }

(***************************************************************************)
(* Spec: every method of the profiler on a two-layer model whose tensors   *)
(* stay allocated; autograd sets and clears the parameters' gradients.     *)
(***************************************************************************)
Init == InitWith({TwoLayers}, {<<1, 2>>}, {TRUE}, {OddStorages})

Next ==
    \/ ConstructWith({1, 2}, {FALSE})
    \/ Forward
    \/ Backward
    \/ (iteration < AcctIter /\ Record)
    \/ epoch_end
    \/ gather_named_parameters
    \/ Autograd

Spec == Init /\ [][Next]_vars

(***************************************************************************)
(* SpecFwd: forward passes while the allocator releases storages and       *)
(* hands their addresses out again.                                        *)
(***************************************************************************)
InitFwd == InitWith({TwoLayers}, {<<1, 2>>}, {TRUE}, {{}})

NextFwd ==
    \/ ConstructWith({1, 2}, {FALSE})
    \/ Forward
    \/ (iteration < AcctIter /\ Record)
    \/ epoch_end
    \/ Allocator

SpecFwd == InitFwd /\ [][NextFwd]_vars

(***************************************************************************)
(* SpecCtor: construction over every module tree, period, csv flag and     *)
(* outcome of the directory and file creation, then the first calls.       *)
(***************************************************************************)
InitCtor == InitWith(ModuleTrees, NamedInits, BOOLEAN, {OddStorages})

NextCtor ==
    \/ ConstructWith(PrintPeriods, BOOLEAN)
    \/ Forward
    \/ Backward
    \/ (iteration < AcctIter /\ Record)

SpecCtor == InitCtor /\ [][NextCtor]_vars

(***************************************************************************)
(* SpecLife: the iteration and epoch counters under every valid period.    *)
(***************************************************************************)
InitLife == InitWith({TwoLayers}, {<<1, 2>>}, {TRUE}, {OddStorages})

NextLife ==
    \/ ConstructWith({1, 2, 3}, BOOLEAN)
    \/ Forward
    \/ Record
    \/ epoch_end

SpecLife == InitLife /\ [][NextLife]_vars

(***************************************************************************)
(* SpecParams: the script adds and removes parameters of the model         *)
(* between the calls.                                                      *)
(***************************************************************************)
InitParams == InitWith({TwoLayers}, NamedInits, {TRUE}, {OddStorages})

NextParams ==
    \/ ConstructWith({1, 2}, BOOLEAN)
    \/ Script
    \/ gather_named_parameters
    \/ (iteration < AcctIter /\ Record)
    \/ epoch_end

SpecParams == InitParams /\ [][NextParams]_vars


(***************************************************************************)
(* SpecMB: reports while the allocator's counters stand at byte counts at  *)
(* and around the rounding points of MB.                                   *)
(***************************************************************************)
InitMB == InitWith({TwoLayers}, {<<1, 2>>}, {TRUE}, {OddStorages})

NextMB ==
    \/ ConstructWith({1, 2}, BOOLEAN)
    \/ Forward
    \/ (iteration < AcctIter /\ RecordBytes)
    \/ epoch_end

SpecMB == InitMB /\ [][NextMB]_vars

(***************************************************************************)
(* SpecBwd: backward passes while autograd sets and clears the parameters' *)
(* gradients and the allocator releases storages and hands their addresses *)
(* out again.                                                              *)
(***************************************************************************)
InitBwd == InitWith({TwoLayers}, {<<1, 2>>}, {TRUE}, {{}})

NextBwd ==
    \/ ConstructWith({1}, {FALSE})
    \/ Backward
    \/ epoch_end
    \/ Autograd
    \/ Allocator

SpecBwd == InitBwd /\ [][NextBwd]_vars

(***************************************************************************)
(* SpecCsv: a profiler logging to a CSV file, with backward passes between *)
(* its reports.                                                            *)
(***************************************************************************)
InitCsv == InitWith({TwoLayers}, {<<1, 2>>}, {TRUE}, {OddStorages})

NextCsv ==
    \/ ConstructWith({1}, {TRUE})
    \/ Backward
    \/ (iteration < AcctIter /\ Record)
    \/ epoch_end
    \/ Autograd

SpecCsv == InitCsv /\ [][NextCsv]_vars

(***************************************************************************)
(* SpecHooks: forward and backward passes over the same tensors, between   *)
(* the record_stats calls of one epoch.                                    *)
(***************************************************************************)
InitHooks == InitWith({TwoLayers}, {<<1, 2>>}, {TRUE}, {OddStorages})

NextHooks ==
    \/ ConstructWith({2}, {FALSE})
    \/ Forward
    \/ Backward
    \/ (iteration < AcctIter /\ Record)
    \/ Autograd

SpecHooks == InitHooks /\ [][NextHooks]_vars

(***************************************************************************)
(* Properties.                                                             *)
(***************************************************************************)
SumGradSizes(d) == SumSeq([i \in DOMAIN d |-> d[i].grad_size])

SumSizes(d) == SumSeq([i \in DOMAIN d |-> d[i].size])

RECURSIVE SumFirst(_)
SumFirst(S) ==
    IF S = {} THEN 0
    ELSE LET e == CHOOSE x \in S : TRUE IN e[2] + SumFirst(S \ {e})

\* C1: in every state after construction the gradient total is at least the
\* sum of the tracked parameters' grad_size, and the remainder a report
\* computed (unnamed_gradient_mem, "Intermediate grads") is never negative.
C1_GradRemainderNonNegative ==
    Built =>
        /\ memory_used_by_gradients - SumGradSizes(params) >= 0
        /\ unnamed_gradient_mem # Null => unnamed_gradient_mem[1] >= 0
        /\ out.table # Null => out.table[1].intermediate >= 0

\* C1 witness: a report that shows a parameter's gradient and a positive remainder.
C1_Witness ==
    /\ out.table # Null
    /\ unnamed_gradient_mem[1] > 0
    /\ \E i \in DOMAIN params : params[i].grad_size > 0

\* C2: within a window the activation total is the sum, over the addresses
\* observed by forward_hook, of the bytes seen at the first observation of each.
C2_ActivationOncePerIdentity ==
    Built =>
        /\ memory_used_by_feature_maps = SumFirst(act_first)
        /\ activation_data_pointers = { e[1] : e \in act_first }

\* C2 witness: two addresses are counted, and a live storage sits at a counted
\* address with other bytes than were counted for it (its forward call aliases).
C2_Witness ==
    /\ Cardinality(activation_data_pointers) = 2
    /\ memory_used_by_feature_maps > 0
    /\ \E o \in live :
          /\ getDataPtr(o) \in activation_data_pointers
          /\ <<getDataPtr(o), getTensorSize(o)>> \notin act_first

\* C3: a forward_hook call repeated with the same output, and a backwards_hook
\* call repeated with the same parameter gradients, in_grads and out_grads,
\* changes nothing the first call left.
C3_RepeatedObservationIdempotent ==
    Built =>
        /\ \A o \in live :
              LET r == ForwardEffect(activation_data_pointers,
                                     memory_used_by_feature_maps, o)
              IN  ForwardEffect(r[1], r[2], o) = r
        /\ \A in_grads \in GradLists :
              \A out_grads \in { g \in GradLists : Len(in_grads) + Len(g) <= MaxGrads } :
                  LET r == BackwardEffect(GradAcc, in_grads, out_grads)
                  IN  BackwardEffect(r, in_grads, out_grads) = r

\* C3 witness: both hooks have counted something, a parameter's gradient and
\* an intermediate one among it, and a live tensor is not yet counted as an
\* activation (a first forward call of it still adds, a second must not).
C3_Witness ==
    /\ Built
    /\ memory_used_by_feature_maps > 0
    /\ memory_used_by_gradients > SumGradSizes(params)
    /\ SumGradSizes(params) > 0
    /\ \E o \in live : getDataPtr(o) \notin activation_data_pointers

\* C4: epoch_end sets iteration to 0, adds 1 to epoch, zeroes both totals,
\* empties both identity sets and zeroes every tracked grad_size, so that any
\* tensor observed next is counted as new.
C4_EpochEndResets ==
    [][out'.op = "epoch_end" =>
          /\ iteration' = 0
          /\ epoch' = epoch + 1
          /\ memory_used_by_feature_maps' = 0
          /\ memory_used_by_gradients' = 0
          /\ activation_data_pointers' = {}
          /\ gradient_data_pointers' = {}
          /\ Len(params') = Len(params)
          /\ \A i \in DOMAIN params' : params'[i].grad_size = 0
          /\ \A o \in live' :
                /\ ForwardEffect(activation_data_pointers',
                                 memory_used_by_feature_maps', o)
                     = <<{getDataPtr(o)}, getTensorSize(o)>>
                /\ ListGradStep([ptrs |-> gradient_data_pointers',
                                 total |-> memory_used_by_gradients',
                                 params |-> params'], o).total = getTensorSize(o)]_vars

\* C4 witness: an epoch_end after a report that showed gradient bytes.
C4_Witness ==
    /\ out.op = "epoch_end"
    /\ epoch = 2
    /\ unnamed_gradient_mem # Null
    /\ unnamed_gradient_mem[1] > 0

\* C5: iteration counts the record_stats calls of the epoch, a call reports
\* exactly when the count is a multiple of print_period (with a CSV row exactly
\* when csv is set), so the k-th report of an epoch comes at call k * print_period.
C5_ReportEveryPeriod ==
    st = "ready" =>
        /\ iteration = ncalls
        /\ nreports * print_period <= ncalls
        /\ ncalls < (nreports + 1) * print_period
        /\ out.op = "record_stats" =>
              /\ out.table # Null <=> iteration % print_period = 0
              /\ out.table # Null <=> ncalls = nreports * print_period
              /\ out.row # Null <=> (csv /\ out.table # Null)

\* C5 witness: the second report of the second epoch, with its CSV row, at the
\* fourth call of a period of two.
C5_Witness ==
    /\ out.table # Null
    /\ out.row # Null
    /\ print_period = 2
    /\ epoch = 2
    /\ nreports = 2
    /\ ncalls = 4

\* C6: the constructor called with print_period < 1 ends in exit() with no hook
\* registered, no attribute of the profiler assigned and no file or directory made.
C6_InvalidPeriodAbortsFirst ==
    [][(st = "new" /\ out'.op = "__init__" /\ out'.arg[1] < 1) =>
          /\ st' = "exited"
          /\ out'.error
          /\ UNCHANGED <<regs, self, env>>]_vars

\* C6 witness: exit() after print_period = 0 on a model that has layers to hook.
C6_Witness ==
    /\ st = "exited"
    /\ out.arg = <<0>>
    /\ Children(tree, 0) # <<>>
    /\ fwd_reg = <<>>
    /\ bwd_reg = <<>>


\* the modules below the model: the components the tree walk surfaces
RECURSIVE Below(_, _)
Below(t, m) ==
    Range(Children(t, m)) \cup UNION { Below(t, c) : c \in Range(Children(t, m)) }

\* how often the walk from the model comes to module m: once for every
\* chain of _modules entries that leads from the model to m
RECURSIVE Surfaced(_, _)
Surfaced(t, m) ==
    SumSeq([q \in 1..Len(t) |->
              IF Count(Children(t, q - 1), m) = 0 THEN 0
              ELSE Count(Children(t, q - 1), m)
                     * (IF q = 1 THEN 1 ELSE Surfaced(t, q - 1))])

C8_Original ==
    out.table # Null =>
        [i \in DOMAIN out.table[1].weights |-> out.table[1].weights[i][1]]
            = [i \in DOMAIN GatherNamed(named) |-> GatherNamed(named)[i].name]

\* C9 as stated: when os.mkdir fails in the constructor, logging is switched
\* off and no file is opened, and the constructor completes.
C9_Original ==
    (out.op = "__init__" /\ out.warning) =>
        /\ st = "ready"
        /\ ~csv
        /\ ~out.open_tried

\* C10: the bytes behind a report's "Total weight usage" are the sum of the
\* sizes of the tracked parameters, one entry per backing storage, and the
\* figure shown is that sum converted.
C10_TotalWeightIsSumOfTracked ==
    out.table # Null =>
        /\ out.table[1].weight_bytes = SumSizes(params)
        /\ out.table[1].total_weight = MB(SumSizes(params))
        /\ \A i, j \in DOMAIN params : params[i].dp = params[j].dp => i = j

\* C10 witness: a report on a model with three named parameters, two of them
\* on one storage: two entries are tracked and 600,000 bytes are totalled.
C10_Witness ==
    /\ out.table # Null
    /\ Len(named) = 3
    /\ Len(params) = 2
    /\ out.table[1].weight_bytes = 600000
    /\ out.table[1].total_weight = 1


Abs(x) == IF x < 0 THEN -x ELSE x

\* C11: every figure of a report is the byte count rounded to the nearest
\* megabyte: it is at most 500,000 bytes off; 0 gives 0, 999,999 gives 1,
\* 3,000,000, 5,000,000 and 8,000,000 give 3, 5 and 8; weights of 400,000 and
\* 200,000 bytes are shown as 0 each and as 1 in total.
C11_NearestMegabyte ==
    out.table # Null =>
        LET B == out.cuda[1].peak_allocated
            t == out.table[1]
        IN  /\ Abs(t.peak_allocated * 1000000 - B) <= 500000
            /\ Abs(t.peak_cached * 1000000 - out.cuda[1].peak_cached) <= 500000
            /\ Abs(t.current_cached * 1000000 - out.cuda[1].current_cached) <= 500000
            /\ Abs(t.activation * 1000000 - memory_used_by_feature_maps) <= 500000
            /\ B = 0 => t.peak_allocated = 0
            /\ B = 999999 => t.peak_allocated = 1
            /\ B = 3000000 => t.peak_allocated = 3
            /\ B = 5000000 => t.peak_allocated = 5
            /\ B = 8000000 => t.peak_allocated = 8
            /\ (SumSizes(params) = 600000 /\ Len(params) = 2) =>
                  /\ t.total_weight = 1
                  /\ \A i \in DOMAIN t.weights : t.weights[i][2] = 0
            /\ out.row # Null => out.row[1][3] = t.peak_allocated

\* C11 witness: a report that read 999,999 bytes and shows 1 MB, with the two
\* weights of 400,000 and 200,000 bytes shown as 0 MB each and 1 MB in total.
C11_Witness ==
    /\ out.table # Null
    /\ out.cuda[1].peak_allocated = 999999
    /\ out.table[1].peak_allocated = 1
    /\ [i \in DOMAIN params |-> params[i].size] = <<400000, 200000>>
    /\ out.table[1].total_weight = 1
    /\ out.table[1].weights = << <<"A.weight", 0>>, <<"B.weight", 0>> >>


\* the live tensors whose identity a step puts into the gradient window
NewGrads ==
    { s \in live : getDataPtr(s) \in gradient_data_pointers' \ gradient_data_pointers }

\* the tracked entries whose parameter has s as its .grad
GradOwners(s) == { i \in DOMAIN params : grad[params[i].tensor] = s }

\* the first of them in the order of self.params
FirstOwner(s) == CHOOSE i \in GradOwners(s) : \A j \in GradOwners(s) : i <= j

Remainder(total, d) == total - SumGradSizes(d)

\* C12: in one backwards_hook call, a tensor of in_grads or out_grads whose
\* identity is not yet in the gradient window and that is a tracked parameter's
\* .grad enters the window, the total rises by the size of each tensor that
\* entered counted once, the grad_size of the (first) parameter owning it rises
\* by its size, and the intermediate remainder rises only by the tensors that
\* entered and are no tracked parameter's .grad.
C12_ListedParamGradAttributedOnce ==
    [][\A m \in Range(bwd_reg), in_grads \in GradLists :
        \A out_grads \in { t \in GradLists : Len(in_grads) + Len(t) <= MaxGrads } :
          (UNCHANGED <<env, epoch>> /\ backwards_hook(m, in_grads, out_grads)) =>
              \A g \in Range(in_grads) \cup Range(out_grads) :
                  (getDataPtr(g) \notin gradient_data_pointers /\ GradOwners(g) # {}) =>
                      /\ g \in NewGrads
                      /\ memory_used_by_gradients' - memory_used_by_gradients
                           = SumFirst({ <<s, getTensorSize(s)>> : s \in NewGrads })
                      /\ params'[FirstOwner(g)].grad_size
                           = params[FirstOwner(g)].grad_size + getTensorSize(g)
                      /\ Remainder(memory_used_by_gradients', params')
                           - Remainder(memory_used_by_gradients, params)
                           = SumFirst({ <<s, getTensorSize(s)>> :
                                          s \in { x \in NewGrads : GradOwners(x) = {} } })
     ]_vars

\* C12 witness: after a backward pass the gradient on storage 1, a live tensor
\* that can be handed over in in_grads and is the .grad of the first tracked
\* parameter, is in the window, the whole total is attributed to that
\* parameter and the remainder is 0.
C12_Witness ==
    /\ Built
    /\ Len(params) > 0
    /\ grad[params[1].tensor] = 1
    /\ 1 \in live
    /\ getDataPtr(1) \in gradient_data_pointers
    /\ params[1].grad_size = getTensorSize(1)
    /\ memory_used_by_gradients = getTensorSize(1)
    /\ Remainder(memory_used_by_gradients, params) = 0


GradSizes(d) == [i \in DOMAIN d |-> d[i].grad_size]

\* C13: a record_stats call, reporting or not, leaves the activation total, the
\* gradient total, both identity sets and every tracked grad_size as they
\* were; a step that lowers a total or takes an identity out of a set is an
\* epoch_end, and a step that lowers a grad_size is an epoch_end or a re-scan
\* of the named parameters.
C13_RecordStatsKeepsAccounting ==
    [][/\ out'.op = "record_stats" =>
            /\ UNCHANGED <<memory_used_by_feature_maps, memory_used_by_gradients,
                           activation_data_pointers, gradient_data_pointers>>
            /\ GradSizes(params') = GradSizes(params)
       /\ ( \/ memory_used_by_feature_maps' < memory_used_by_feature_maps
            \/ memory_used_by_gradients' < memory_used_by_gradients
            \/ ~(activation_data_pointers \subseteq activation_data_pointers')
            \/ ~(gradient_data_pointers \subseteq gradient_data_pointers') )
          => out'.op = "epoch_end"
       /\ (Built /\ SumGradSizes(params') < SumGradSizes(params))
          => (out'.op = "epoch_end" \/ params' = GatherNamed(named))
     ]_vars

\* C13 witness: the second record_stats call of an epoch has reported, and the
\* totals, both sets and a grad_size still hold what the passes accumulated.
C13_Witness ==
    /\ out.op = "record_stats"
    /\ out.table # Null
    /\ iteration = 2
    /\ memory_used_by_feature_maps > 0
    /\ memory_used_by_gradients > 0
    /\ activation_data_pointers # {}
    /\ gradient_data_pointers # {}
    /\ SumGradSizes(params) > 0


\* what identifies a tracked entry: its key, tensor reference, weight size, name
Tracked(d) ==
    [i \in DOMAIN d |-> <<d[i].dp, d[i].tensor, d[i].size, d[i].name>>]

\* C14: epoch_end leaves the tracked parameters and the key, tensor reference,
\* weight size and name of each, print_period and the csv setting as they were;
\* beyond the accounting it changes nothing of the profiler or its surroundings.
C14_EpochEndKeepsTracked ==
    [][out'.op = "epoch_end" =>
          /\ Tracked(params') = Tracked(params)
          /\ UNCHANGED <<print_period, csv, fname, unnamed_gradient_mem, st, regs, env>>
     ]_vars

\* C14 witness: an epoch_end of a profiler writing a CSV with print_period 2
\* that tracks the weights of 400,000 and 200,000 bytes.
C14_Witness ==
    /\ out.op = "epoch_end"
    /\ epoch = 2
    /\ csv
    /\ print_period = 2
    /\ Tracked(params) = << <<101, 1, 400000, "A.weight">>, <<102, 2, 200000, "B.weight">> >>


\* C15 as stated: the walk at construction binds forward_hook exactly once to
\* every component below the model, the model itself excluded, a parent before
\* its children, also when one instance sits under several names or parents
\* and when the model has no children.
C15_Original ==
    Built =>
        /\ Count(fwd_reg, 0) = 0
        /\ \A m \in Below(tree, 0) : Count(fwd_reg, m) = 1
        /\ \A m \in Modules \ Below(tree, 0) : Count(fwd_reg, m) = 0
        /\ \A j \in DOMAIN fwd_reg :
              \/ fwd_reg[j] \in Range(Children(tree, 0))
              \/ \E k \in 1..(j - 1) : fwd_reg[j] \in Range(Children(tree, fwd_reg[k]))


\* C16 as stated: a tensor is taken as already counted exactly when its own
\* storage was observed earlier in the window, so the activation total is the
\* sum of the sizes of the storages forward_hook was handed in the window, a
\* storage allocated after another one was released included.
C16_Original ==
    Built =>
        memory_used_by_feature_maps
            = SumFirst({ <<s, getTensorSize(s)>> : s \in act_seen })


\* the tracked entries whose parameter has no gradient (.grad is None)
Absent == { i \in DOMAIN params : grad[params[i].tensor] = 0 }

\* C17: in a backwards_hook call an entry whose .grad is None is left as it
\* is and nothing is raised; the gradients of the other entries and the
\* tensors of in_grads and out_grads all enter the window, the total rising
\* by the size of each tensor that entered, and every gradient that entered
\* is credited to the (first) entry owning it.
C17_AbsentGradSkipped ==
    [][\A m \in Range(bwd_reg), in_grads \in GradLists :
        \A out_grads \in { t \in GradLists : Len(in_grads) + Len(t) <= MaxGrads } :
          (UNCHANGED <<env, epoch>> /\ backwards_hook(m, in_grads, out_grads)) =>
              /\ \A i \in Absent : params'[i] = params[i]
              /\ gradient_data_pointers'
                   = gradient_data_pointers
                     \cup { getDataPtr(grad[params[i].tensor]) : i \in DOMAIN params \ Absent }
                     \cup { getDataPtr(t) : t \in Range(in_grads) \cup Range(out_grads) }
              /\ memory_used_by_gradients' - memory_used_by_gradients
                   = SumFirst({ <<s, getTensorSize(s)>> : s \in NewGrads })
              /\ \A s \in NewGrads :
                    GradOwners(s) # {} =>
                        params'[FirstOwner(s)].grad_size
                          = params[FirstOwner(s)].grad_size + getTensorSize(s)
              /\ st' = st
              /\ ~out'.error
     ]_vars

\* C17 witness: after a backward pass the first tracked parameter has no
\* gradient and nothing credited, the second has its gradient credited, and
\* the total holds more than the parameters' gradients (a tensor of in_grads or
\* out_grads was counted).
C17_Witness ==
    /\ Built
    /\ Len(params) = 2
    /\ grad[params[1].tensor] = 0
    /\ params[1].grad_size = 0
    /\ grad[params[2].tensor] # 0
    /\ params[2].grad_size = getTensorSize(grad[params[2].tensor])
    /\ memory_used_by_gradients > SumGradSizes(params)


\* C18 as stated: every row write_info_csv appends has as many fields as the
\* header the constructor wrote, and the header names the row's columns in
\* their order, also after gather_named_parameters re-scanned a model whose
\* named parameters changed.
C18_Original ==
    out.row # Null =>
        /\ file # Null
        /\ Len(out.row[1]) = Len(file[1])
        /\ file[1] = HeaderRow(params)


\* C19: the last field of a row record_stats wrote is the gradient total less
\* the sum of the tracked grad_size values as they are then, converted; the
\* table of the same call shows the same value, and it is the value left in
\* unnamed_gradient_mem.
C19_RowRemainderIsCurrent ==
    out.row # Null =>
        LET r == out.row[1]
            u == Remainder(memory_used_by_gradients, params)
        IN  /\ out.table # Null
            /\ unnamed_gradient_mem = <<u>>
            /\ r[Len(r)] = MB(u)
            /\ r[Len(r)] = out.table[1].intermediate

\* C19 witness: the second report of an epoch wrote a row whose gradient total
\* is 6 MB and whose intermediate value is 5 MB, 600,000 bytes being credited
\* to a tracked parameter.
C19_Witness ==
    /\ out.row # Null
    /\ iteration = 2
    /\ memory_used_by_gradients = 5600000
    /\ SumGradSizes(params) = 600000
    /\ out.row[1][Len(out.row[1])] = 5
    /\ out.row[1][8 + Len(params)] = 6


\* C20: a forward_hook call changes nothing but the activation set and total,
\* a backwards_hook call nothing but the gradient set, the gradient total and
\* the grad_size of tracked entries; neither changes iteration, epoch or
\* print_period; and each tests an identity against its own set only: an
\* output not in the activation set is added to the activation total whether
\* or not the gradient set holds its identity, and a tensor of in_grads or
\* out_grads not in the gradient set enters it and raises the gradient total
\* whether or not the activation set holds its identity.
C20_HooksKeepToTheirCategory ==
    [][/\ \A m \in Range(fwd_reg), o \in live :
            (UNCHANGED <<env, epoch>> /\ forward_hook(m, o)) =>
                /\ UNCHANGED <<gradient_data_pointers, memory_used_by_gradients, params,
                               iteration, epoch, print_period, csv,
                               unnamed_gradient_mem, fname, st, regs, env>>
                /\ getDataPtr(o) \notin activation_data_pointers =>
                      /\ memory_used_by_feature_maps'
                           = memory_used_by_feature_maps + getTensorSize(o)
                      /\ activation_data_pointers'
                           = activation_data_pointers \cup {getDataPtr(o)}
       /\ \A m \in Range(bwd_reg), in_grads \in GradLists :
           \A out_grads \in { t \in GradLists : Len(in_grads) + Len(t) <= MaxGrads } :
            (UNCHANGED <<env, epoch>> /\ backwards_hook(m, in_grads, out_grads)) =>
                /\ UNCHANGED <<activation_data_pointers, memory_used_by_feature_maps,
                               iteration, epoch, print_period, csv,
                               unnamed_gradient_mem, fname, st, regs, env>>
                /\ Tracked(params') = Tracked(params)
                /\ \A t \in Range(in_grads) \cup Range(out_grads) :
                      getDataPtr(t) \notin gradient_data_pointers =>
                          /\ getDataPtr(t) \in gradient_data_pointers'
                          /\ memory_used_by_gradients'
                               >= memory_used_by_gradients + getTensorSize(t)
     ]_vars

\* C20 witness: after the first record_stats call of the epoch storage 1 was
\* counted both as an activation and as a gradient, in full in each total, the
\* counters standing as record_stats left them.
C20_Witness ==
    /\ Built
    /\ epoch = 1
    /\ iteration = 1
    /\ out.op = ""
    /\ getDataPtr(1) \in activation_data_pointers \cap gradient_data_pointers
    /\ memory_used_by_feature_maps = getTensorSize(1)
    /\ memory_used_by_gradients = getTensorSize(1)
    /\ print_period = 2

====
